---- MODULE Spec2Model ----
(***************************************************************************)
(* A model of the two example programs of the repository:                  *)
(*                                                                         *)
(*   examples/serverless-api/lambda_function.py   the resource handler     *)
(*   examples/opencode-test/sample.py             the record transformer   *)
(*                                                                         *)
(* Three specifications share the variables:                               *)
(*   Spec      one lambda_handler invocation at a time, each invocation    *)
(*             one action (the whole handler, every table call included).  *)
(*   SpecRace  several invocations of get_item / delete_item in flight at  *)
(*             once, each call to the table one atomic step.               *)
(*   SpecProc  DataProcessor: _load_config, process_data, _transform_item. *)
(*                                                                         *)
(* The DynamoDB table is a map from id to item whose calls always answer.  *)
(* Strings the code inspects character by character (the path, the values  *)
(* of a record) are sequences of one-character strings.                    *)
(***************************************************************************)
EXTENDS Integers, Sequences, FiniteSets, TLC

VARIABLES
    \* ---- resource handler (Spec, SpecRace)
    table,        \* the DynamoDB table: a function from the ids present to items
    uuidNext,     \* the next value uuid.uuid4() hands out
    pc,           \* "idle": runtime waiting; "done": an invocation has ended
    event,        \* the event of the invocation that ended
    outcome,      \* "none" | "returned" | "raised" (lambda_handler let it escape)
    response,     \* the envelope returned (NoResponse when none)
    before,       \* the table when that invocation began
    op,           \* the operation function lambda_handler called, "none" if none
    writes,       \* the writing table calls made by that invocation
    prevDeleted,  \* the id the invocation before deleted with a 200, 0 if none
    \* ---- concurrent invocations (SpecRace)
    rpc,          \* per invocation: "idle" | "checked" | "done"
    rop,          \* per invocation: "get" | "delete"
    rid,          \* per invocation: the item id asked for
    rstatus,      \* per invocation: the status code returned, 0 while running
    rgone,        \* per invocation: its delete call found the item already gone
    \* ---- record transformer (SpecProc)
    heap,         \* the record objects: object -> mapping field -> value
    heap0,        \* the records as process_data was handed them
    config,       \* DataProcessor.config
    data,         \* the batch handed to process_data: a sequence of objects
    ppc,          \* "new" | "ready" | "returned" | "raised"
    processed,    \* what process_data returned
    clock,        \* the latest reading of time.time()
    returnedAt,   \* the clock when process_data returned
    heapOut,      \* the records as process_data left them
    again         \* per object: _transform_item applied once more:
                  \*   "no" | "same" (clock as at the return) | "later"

vars == << table, uuidNext, pc, event, outcome, response, before, op, writes,
           prevDeleted, rpc, rop, rid, rstatus, rgone,
           heap, heap0, config, data, ppc, processed, clock, returnedAt,
           heapOut, again >>

handlerVars == << table, uuidNext, pc, event, outcome, response, before, op,
                  writes, prevDeleted >>
raceVars == << rpc, rop, rid, rstatus, rgone >>
procVars == << heap, heap0, config, data, ppc, processed, clock, returnedAt,
              heapOut, again >>

\* ------------------------------------------------------------------ bounds

MaxUuid == 2      \* uuid4 values handed out in one behaviour
MaxNow == 0       \* datetime.now() first reads a time in 0..MaxNow
MaxClock == 1     \* time.time() reads a time in 0..MaxClock
NProcs == 2       \* invocations in flight at once (SpecRace)
MaxLen == 2       \* records in one batch (SpecProc)

\* ------------------------------------------------------------------ values

Str(s) == [t |-> "str", s |-> s]
None == [t |-> "none", s |-> <<>>]
Map(m) == [t |-> "map", m |-> m]
NoneMap == [t |-> "none", m |-> <<>>]
Body(s) == [t |-> "str", s |-> s]
NoneBody == [t |-> "none", s |-> ""]

StartsWith(s, prefix) ==
    /\ Len(s) >= Len(prefix)
    /\ SubSeq(s, 1, Len(prefix)) = prefix

ItemsPath == << "/", "i", "t", "e", "m", "s" >>
ItemsPrefix == ItemsPath \o << "/" >>

Ids == 1 .. MaxUuid
Times == 0 .. MaxClock
Nows == 0 .. MaxNow

\* ------------------------------------------------------------ the envelope

Headers == [ContentType |-> "application/json", AccessControlAllowOrigin |-> "*"]

\* json.dumps of a document: the body keeps the document it encodes.
Envelope(status, doc) == [statusCode |-> status, headers |-> Headers, body |-> doc]

NoResponse == [statusCode |-> 0, headers |-> Headers, body |-> [none |-> TRUE]]

\* What one call leaves behind: the envelope (or the exception), the table,
\* the operation reached and the number of writing table calls.
Returned(resp, tbl, o, w) ==
    [outcome |-> "returned", response |-> resp, exc |-> "", msg |-> "",
     table |-> tbl, op |-> o, writes |-> w]
Raised(e, msg, tbl, o, w) ==
    [outcome |-> "raised", response |-> NoResponse, exc |-> e, msg |-> msg,
     table |-> tbl, op |-> o, writes |-> w]

\* ------------------------------------------------------------ table calls

TableGetItem(tbl, id) ==
    IF id \in DOMAIN tbl THEN [Item |-> tbl[id]] ELSE [NoItem |-> TRUE]

TablePutItem(tbl, item) ==
    [i \in DOMAIN tbl \cup {item.id} |-> IF i = item.id THEN item ELSE tbl[i]]

TableDeleteItem(tbl, id) == [i \in DOMAIN tbl \ {id} |-> tbl[i]]

TableScan(tbl) == [Items |-> {tbl[i] : i \in DOMAIN tbl}]

\* ---------------------------------------------------------------- parsing

\* json.loads on the bodies the model sends: a mapping, a list, or no JSON.
JsonLoads(s) ==
    CASE s = "{}" -> [ok |-> TRUE, kind |-> "dict", m |-> <<>>]
      [] s = "{\"name\": \"n\", \"description\": \"d\"}" ->
            [ok |-> TRUE, kind |-> "dict", m |-> [name |-> "n", description |-> "d"]]
      [] s = "[]" -> [ok |-> TRUE, kind |-> "list", m |-> <<>>]
      [] OTHER -> [ok |-> FALSE, kind |-> "", m |-> <<>>]

\* dict.get(key, default)
DictGet(m, key, default) == IF key \in DOMAIN m THEN m[key] ELSE default

\* Python's truth value of the body: None and '' are false.
Falsy(body) == body.t = "none" \/ body.s = ""

\* ------------------------------------------------------------- operations

GetAllItems(tbl) ==
    LET items == TableScan(tbl).Items
    IN  Returned(Envelope(200, [items |-> items, count |-> Cardinality(items)]),
                 tbl, "get_all_items", 0)

\* Lines 70-89. u is uuid.uuid4(); now1 and now2 are the two readings of
\* datetime.now(), the second one the same clock tick or the next.
CreateFromBody(body, tbl, u, now1, now2) ==
    LET parsed == JsonLoads(body.s)
    IN  IF ~parsed.ok
        THEN Raised("JSONDecodeError", "Expecting value: line 1 column 1 (char 0)",
                    tbl, "create_item", 0)
        ELSE IF parsed.kind # "dict"
        THEN Raised("AttributeError", "'list' object has no attribute 'get'",
                    tbl, "create_item", 0)
        ELSE LET item == [id |-> u,
                          name |-> DictGet(parsed.m, "name", ""),
                          description |-> DictGet(parsed.m, "description", ""),
                          created_at |-> now1,
                          updated_at |-> now2]
             IN  Returned(Envelope(201, item), TablePutItem(tbl, item),
                          "create_item", 1)

\* Mutant of CreateItem: `if body is None` in place of `if not body`.
CreateItemNoneOnly(body, tbl, u, now1, now2) ==
    IF body.t = "none"
    THEN Returned(Envelope(400, [error |-> "Request body is required"]),
                  tbl, "create_item", 0)
    ELSE CreateFromBody(body, tbl, u, now1, now2)

CreateItem(body, tbl, u, now1, now2) ==
    IF Falsy(body)
    THEN Returned(Envelope(400, [error |-> "Request body is required"]),
                  tbl, "create_item", 0)
    ELSE CreateFromBody(body, tbl, u, now1, now2)

\* Mutant of GetItem: the not-found answer goes out with status 200.
GetItemNo404(item_id, tbl) ==
    LET resp == TableGetItem(tbl, item_id)
    IN  IF "Item" \notin DOMAIN resp
        THEN Returned(Envelope(200, [error |-> "Item not found"]), tbl, "get_item", 0)
        ELSE Returned(Envelope(200, resp.Item), tbl, "get_item", 0)

GetItem(item_id, tbl) ==
    LET resp == TableGetItem(tbl, item_id)
    IN  IF "Item" \notin DOMAIN resp
        THEN Returned(Envelope(404, [error |-> "Item not found"]), tbl, "get_item", 0)
        ELSE Returned(Envelope(200, resp.Item), tbl, "get_item", 0)

\* Mutant of DeleteItem: the confirmation goes out and table.delete_item is
\* never called.
DeleteItemNoDelete(item_id, tbl) ==
    LET resp == TableGetItem(tbl, item_id)
    IN  IF "Item" \notin DOMAIN resp
        THEN Returned(Envelope(404, [error |-> "Item not found"]), tbl, "delete_item", 0)
        ELSE Returned(Envelope(200, [message |-> "Item deleted successfully"]),
                      tbl, "delete_item", 0)

DeleteItem(item_id, tbl) ==
    LET resp == TableGetItem(tbl, item_id)
    IN  IF "Item" \notin DOMAIN resp
        THEN Returned(Envelope(404, [error |-> "Item not found"]), tbl, "delete_item", 0)
        ELSE Returned(Envelope(200, [message |-> "Item deleted successfully"]),
                      TableDeleteItem(tbl, item_id), "delete_item", 1)

\* event['pathParameters']['id']
PathId(ev, tbl) ==
    IF "pathParameters" \notin DOMAIN ev
    THEN Raised("KeyError", "'pathParameters'", tbl, "none", 0)
    ELSE IF ev.pathParameters.t = "none"
    THEN Raised("TypeError", "'NoneType' object is not subscriptable", tbl, "none", 0)
    ELSE IF "id" \notin DOMAIN ev.pathParameters.m
    THEN Raised("KeyError", "'id'", tbl, "none", 0)
    ELSE [outcome |-> "value", id |-> ev.pathParameters.m.id]

\* path.startswith('/items/') on a path that may be None
PathStartsWith(path, tbl) ==
    IF path.t = "none"
    THEN Raised("AttributeError", "'NoneType' object has no attribute 'startswith'",
                tbl, "none", 0)
    ELSE [outcome |-> "value", b |-> StartsWith(path.s, ItemsPrefix)]

\* The body of the try block (lines 14-32): the route taken, or the exception.
Dispatch(ev, tbl, u, now1, now2) ==
    LET http_method == ev.httpMethod
        path == ev.path
        NotFound == Returned(Envelope(404, [error |-> "Not found"]), tbl, "none", 0)
        ById(operation) ==
            LET id == PathId(ev, tbl)
            IN  IF id.outcome = "raised" THEN id
                ELSE IF operation = "get" THEN GetItem(id.id, tbl)
                ELSE DeleteItem(id.id, tbl)
    IN  IF http_method = "GET" /\ path = Str(ItemsPath)
        THEN GetAllItems(tbl)
        ELSE IF http_method = "POST" /\ path = Str(ItemsPath)
        THEN IF "body" \notin DOMAIN ev
             THEN Raised("KeyError", "'body'", tbl, "none", 0)
             ELSE CreateItem(ev.body, tbl, u, now1, now2)
        ELSE IF http_method = "GET"
        THEN LET sw == PathStartsWith(path, tbl)
             IN  IF sw.outcome = "raised" THEN sw
                 ELSE IF sw.b THEN ById("get") ELSE NotFound
        ELSE IF http_method = "DELETE"
        THEN LET sw == PathStartsWith(path, tbl)
             IN  IF sw.outcome = "raised" THEN sw
                 ELSE IF sw.b THEN ById("delete") ELSE NotFound
        ELSE NotFound

\* The except clause (lines 33-41): any exception of the try block becomes a 500.
CatchAll(r) ==
    IF r.outcome = "raised"
    THEN Returned(Envelope(500, [error |-> r.msg]), r.table, r.op, r.writes)
    ELSE r

LambdaHandler(ev, tbl, u, now1, now2) ==
    IF "httpMethod" \notin DOMAIN ev
    THEN Raised("KeyError", "'httpMethod'", tbl, "none", 0)
    ELSE IF "path" \notin DOMAIN ev
    THEN Raised("KeyError", "'path'", tbl, "none", 0)
    ELSE CatchAll(Dispatch(ev, tbl, u, now1, now2))

\* ----------------------------------------------------------------- events

Methods == {"GET", "POST", "DELETE", "PUT"}

Paths ==
    { Str(ItemsPath),                               \* /items
      Str(ItemsPrefix),                             \* /items/
      Str(ItemsPrefix \o <<"a">>),                  \* /items/a
      Str(ItemsPrefix \o <<"a", "/", "b">>),        \* /items/a/b
      Str(ItemsPath \o <<"x">>),                    \* /itemsx
      None }

PathParams == {NoneMap, Map(<<>>)} \cup {Map([id |-> i]) : i \in Ids}

Bodies ==
    { NoneBody, Body(""), Body("{}"),
      Body("{\"name\": \"n\", \"description\": \"d\"}"),
      Body("[]"), Body("not json") }

EventKeys == {"httpMethod", "path", "pathParameters", "body"}

\* Complete events: every method with every path and every pathParameters,
\* and every body on the create route.
FullEvents ==
    [httpMethod : Methods, path : Paths, pathParameters : PathParams,
     body : {NoneBody}]
    \cup
    [httpMethod : {"POST"}, path : {Str(ItemsPath)}, pathParameters : {NoneMap},
     body : Bodies]

\* Events lacking one key, on each of the four routes and off them.
PartialEvents ==
    { [k \in EventKeys \ {gone} |-> f[k]] :
        gone \in EventKeys,
        f \in [httpMethod : Methods,
               path : {Str(ItemsPath), Str(ItemsPrefix \o <<"a">>)},
               pathParameters : {Map([id |-> 1])},
               body : {Body("{}")}] }

\* The events the runtime delivers.
Events == FullEvents \cup PartialEvents

NoEvent == <<>>

\* ------------------------------------------------- Spec: one invocation at a time

RaceIdle ==
    /\ rpc = [p \in 1 .. NProcs |-> "idle"]
    /\ rop = [p \in 1 .. NProcs |-> "get"]
    /\ rid = [p \in 1 .. NProcs |-> 1]
    /\ rstatus = [p \in 1 .. NProcs |-> 0]
    /\ rgone = [p \in 1 .. NProcs |-> FALSE]

ProcIdle ==
    /\ heap = <<>>
    /\ heap0 = <<>>
    /\ config = <<>>
    /\ data = <<>>
    /\ ppc = "new"
    /\ processed = <<>>
    /\ clock = 0
    /\ returnedAt = 0
    /\ heapOut = <<>>
    /\ again = <<>>

HandlerIdle ==
    /\ table = <<>>
    /\ uuidNext = 1
    /\ pc = "idle"
    /\ event = NoEvent
    /\ outcome = "none"
    /\ response = NoResponse
    /\ before = <<>>
    /\ op = "none"
    /\ writes = 0
    /\ prevDeleted = 0

Init == HandlerIdle /\ RaceIdle /\ ProcIdle

\* The runtime invokes lambda_handler(event, context) and the handler runs to
\* its end. uuid4 is a value never handed out before.
Invoke(ev, now1, now2) ==
    /\ pc = "idle"
    /\ LET r == LambdaHandler(ev, table, uuidNext, now1, now2)
           created == r.op = "create_item" /\ r.writes > 0
       IN  /\ created => uuidNext <= MaxUuid
           /\ ~created => now1 = 0 /\ now2 = 0     \* the clock was not read
           /\ table' = r.table
           /\ uuidNext' = IF created THEN uuidNext + 1 ELSE uuidNext
           /\ outcome' = r.outcome
           /\ response' = r.response
           /\ op' = r.op
           /\ writes' = r.writes
    /\ pc' = "done"
    /\ event' = ev
    /\ before' = table
    /\ UNCHANGED << prevDeleted, raceVars, procVars >>

\* The runtime hands the envelope (or the exception) to the caller.
Deliver ==
    /\ pc = "done"
    /\ pc' = "idle"
    /\ prevDeleted' = IF op = "delete_item" /\ response.statusCode = 200
                      THEN event.pathParameters.m.id ELSE 0
    /\ event' = NoEvent
    /\ outcome' = "none"
    /\ response' = NoResponse
    /\ before' = <<>>
    /\ op' = "none"
    /\ writes' = 0
    /\ UNCHANGED << table, uuidNext, raceVars, procVars >>

Next ==
    \/ \E ev \in Events, now1 \in Nows : \E now2 \in {now1, now1 + 1} :
            Invoke(ev, now1, now2)
    \/ Deliver

Spec == Init /\ [][Next]_vars

\* ------------------------------------------------------- claims under Spec

\* The id a done invocation asked for, 0 when its event carries none.
RequestId ==
    IF /\ "pathParameters" \in DOMAIN event
       /\ event.pathParameters.t = "map"
       /\ "id" \in DOMAIN event.pathParameters.m
    THEN event.pathParameters.m.id
    ELSE 0

\* The path pattern /items/{id}: the prefix, then one non-empty segment.
IsItemPath(path) ==
    /\ path.t = "str"
    /\ StartsWith(path.s, ItemsPrefix)
    /\ Len(path.s) > Len(ItemsPrefix)
    /\ \A i \in Len(ItemsPrefix) + 1 .. Len(path.s) : path.s[i] # "/"

\* The routing table of the specification.
TableRoute(method, path) ==
    IF method = "GET" /\ path = Str(ItemsPath) THEN "get_all_items"
    ELSE IF method = "POST" /\ path = Str(ItemsPath) THEN "create_item"
    ELSE IF method = "GET" /\ IsItemPath(path) THEN "get_item"
    ELSE IF method = "DELETE" /\ IsItemPath(path) THEN "delete_item"
    ELSE "none"

\* C1: a request (a complete event, its path a string, its pathParameters
\* carrying an id) runs the operation the routing table gives for its method
\* and path, and every combination off the table gets 404 {"error": "Not found"}.
C1_RoutingTable ==
    (/\ pc = "done"
     /\ DOMAIN event = EventKeys
     /\ event.path.t = "str"
     /\ RequestId # 0)
    => /\ op = TableRoute(event.httpMethod, event.path)
       /\ TableRoute(event.httpMethod, event.path) = "none"
            => response = Envelope(404, [error |-> "Not found"])

\* C4: lambda_handler never lets an exception escape: whatever is raised while
\* it dispatches, the reading of the event's method and path included, comes
\* back as a 500 whose body carries the exception's message.
C4_NeverPropagates ==
    pc = "done"
    => /\ outcome = "returned"
       /\ LET tried == Dispatch(event, before, uuidNext, 0, 0)
          IN  tried.outcome = "raised"
                => response = Envelope(500, [error |-> tried.msg])

\* C5: a 201 carries an item whose id no item of the table had, whose name and
\* description default to "", whose created_at equals its updated_at, and
\* exactly that item is written.
C5_CreatedItem ==
    (pc = "done" /\ response.statusCode = 201)
    => LET item == response.body
           given == JsonLoads(event.body.s).m
       IN  /\ item.id \notin DOMAIN before
           /\ "name" \notin DOMAIN given => item.name = ""
           /\ "description" \notin DOMAIN given => item.description = ""
           /\ item.created_at = item.updated_at
           /\ table = TablePutItem(before, item)
           /\ writes = 1

\* C8: a create whose body is None or "" answers 400
\* {"error": "Request body is required"}, makes no writing table call and
\* leaves the table as it was.
C8_EmptyBody ==
    (/\ pc = "done"
     /\ {"httpMethod", "path", "body"} \subseteq DOMAIN event
     /\ event.httpMethod = "POST"
     /\ event.path = Str(ItemsPath)
     /\ event.body \in {NoneBody, Body("")})
    => /\ outcome = "returned"
       /\ op = "create_item"
       /\ response = Envelope(400, [error |-> "Request body is required"])
       /\ writes = 0
       /\ table = before

C8_Witness ==
    /\ pc = "done"
    /\ op = "create_item"
    /\ "body" \in DOMAIN event
    /\ event.body = Body("")
    /\ response.statusCode = 400
    /\ DOMAIN before # {}

\* C9: fetch-by-id answers 404 {"error": "Item not found"} exactly when the
\* table holds no item of that id, 200 with the stored item otherwise, and
\* leaves the table as it was.
C9_Fetch ==
    (pc = "done" /\ op = "get_item")
    => /\ outcome = "returned"
       /\ RequestId \notin DOMAIN before
            <=> response = Envelope(404, [error |-> "Item not found"])
       /\ RequestId \in DOMAIN before
            => response = Envelope(200, before[RequestId])
       /\ table = before
       /\ writes = 0

C9_Witness ==
    /\ pc = "done"
    /\ op = "get_item"
    /\ response.statusCode = 200
    /\ Cardinality(DOMAIN before) = 2

\* C2: delete-by-id of an id the table holds answers 200 with the
\* confirmation and removes that item, and the fetch-by-id of the same id
\* that comes next answers 404.
C2_DeleteThenFetch ==
    /\ (pc = "done" /\ op = "delete_item" /\ RequestId \in DOMAIN before)
         => /\ response = Envelope(200, [message |-> "Item deleted successfully"])
            /\ table = TableDeleteItem(before, RequestId)
            /\ RequestId \notin DOMAIN table
    /\ (pc = "done" /\ op = "get_item" /\ prevDeleted # 0 /\ RequestId = prevDeleted)
         => response.statusCode = 404

C2_Witness ==
    /\ pc = "done"
    /\ op = "get_item"
    /\ prevDeleted # 0
    /\ RequestId = prevDeleted
    /\ response.statusCode = 404
    /\ DOMAIN table # {}

\* ------------------------------------ SpecRace: invocations in flight together

Procs == 1 .. NProcs

\* An item as create_item stores it.
StoredItem(i) ==
    [id |-> i, name |-> "n", description |-> "d", created_at |-> 0, updated_at |-> 0]

\* delete_item's first table call (lines 115-125): the existence check.
DeleteCheck(tbl, id) ==
    LET resp == TableGetItem(tbl, id)
    IN  IF "Item" \notin DOMAIN resp
        THEN [found |-> FALSE, response |-> Envelope(404, [error |-> "Item not found"])]
        ELSE [found |-> TRUE, response |-> NoResponse]

\* Mutant of DeleteCall: a conditional delete, which answers 404 when the
\* item is no longer there.
DeleteCallIfExists(tbl, id) ==
    IF id \in DOMAIN tbl
    THEN [table |-> TableDeleteItem(tbl, id),
          response |-> Envelope(200, [message |-> "Item deleted successfully"])]
    ELSE [table |-> tbl, response |-> Envelope(404, [error |-> "Item not found"])]

\* delete_item's second table call and its return (lines 127-136).
DeleteCall(tbl, id) ==
    [table |-> TableDeleteItem(tbl, id),
     response |-> Envelope(200, [message |-> "Item deleted successfully"])]

InitRace ==
    /\ \E S \in SUBSET Ids : table = [i \in S |-> StoredItem(i)]
    /\ uuidNext = MaxUuid + 1
    /\ pc = "idle"
    /\ event = NoEvent
    /\ outcome = "none"
    /\ response = NoResponse
    /\ before = <<>>
    /\ op = "none"
    /\ writes = 0
    /\ prevDeleted = 0
    /\ RaceIdle
    /\ ProcIdle

raceFrame == << uuidNext, pc, event, outcome, response, before, op, writes,
               prevDeleted, procVars >>

\* The runtime starts invocation p: a fetch-by-id or a delete-by-id of id.
Start(p, o, id) ==
    /\ rpc[p] = "idle"
    /\ rpc' = [rpc EXCEPT ![p] = "called"]
    /\ rop' = [rop EXCEPT ![p] = o]
    /\ rid' = [rid EXCEPT ![p] = id]
    /\ rstatus' = [rstatus EXCEPT ![p] = 0]
    /\ rgone' = [rgone EXCEPT ![p] = FALSE]
    /\ UNCHANGED << table, raceFrame >>

\* get_item: one table call, then the return.
Fetch(p) ==
    /\ rpc[p] = "called"
    /\ rop[p] = "get"
    /\ rstatus' = [rstatus EXCEPT ![p] = GetItem(rid[p], table).response.statusCode]
    /\ rpc' = [rpc EXCEPT ![p] = "done"]
    /\ UNCHANGED << table, rop, rid, rgone, raceFrame >>

\* delete_item up to its existence check.
Check(p) ==
    /\ rpc[p] = "called"
    /\ rop[p] = "delete"
    /\ LET c == DeleteCheck(table, rid[p])
       IN  /\ rpc' = [rpc EXCEPT ![p] = IF c.found THEN "checked" ELSE "done"]
           /\ rstatus' = [rstatus EXCEPT ![p] = c.response.statusCode]
    /\ UNCHANGED << table, rop, rid, rgone, raceFrame >>

\* delete_item from its delete call to its return.
Delete(p) ==
    /\ rpc[p] = "checked"
    /\ LET d == DeleteCall(table, rid[p])
       IN  /\ table' = d.table
           /\ rstatus' = [rstatus EXCEPT ![p] = d.response.statusCode]
    /\ rgone' = [rgone EXCEPT ![p] = rid[p] \notin DOMAIN table]
    /\ rpc' = [rpc EXCEPT ![p] = "done"]
    /\ UNCHANGED << rop, rid, raceFrame >>

\* The runtime hands invocation p's envelope to its caller.
Finish(p) ==
    /\ rpc[p] = "done"
    /\ rpc' = [rpc EXCEPT ![p] = "idle"]
    /\ rop' = [rop EXCEPT ![p] = "get"]
    /\ rid' = [rid EXCEPT ![p] = 1]
    /\ rstatus' = [rstatus EXCEPT ![p] = 0]
    /\ rgone' = [rgone EXCEPT ![p] = FALSE]
    /\ UNCHANGED << table, raceFrame >>

NextRace ==
    \/ \E p \in Procs, o \in {"get", "delete"}, id \in Ids : Start(p, o, id)
    \/ \E p \in Procs : Fetch(p)
    \/ \E p \in Procs : Check(p)
    \/ \E p \in Procs : Delete(p)
    \/ \E p \in Procs : Finish(p)

SpecRace == InitRace /\ [][NextRace]_vars

\* C10: the existence check and the delete are separate table calls, so a
\* delete-by-id whose item another invocation removed after its check still
\* answers 200: every delete that passed its check returns 200, the ones
\* whose delete call found the item gone included.
C10_DeleteRace ==
    \A p \in Procs :
        (rpc[p] = "done" /\ rop[p] = "delete" /\ rgone[p]) => rstatus[p] = 200

\* Two deletes of one id have both answered 200, the item already gone when
\* the second one's delete call ran.
C10_Witness ==
    \E p, q \in Procs :
        /\ p # q
        /\ rpc[p] = "done" /\ rpc[q] = "done"
        /\ rop[p] = "delete" /\ rop[q] = "delete"
        /\ rid[p] = rid[q]
        /\ rstatus[p] = 200 /\ rstatus[q] = 200
        /\ rgone[q] /\ ~rgone[p]

\* --------------------------------------------- SpecProc: the record transformer

\* A field's value: a string (a sequence of characters) or an integer.
StrVal(s) == [t |-> "str", s |-> s, n |-> 0]
IntVal(n) == [t |-> "int", s |-> <<>>, n |-> n]

AsciiDigits == {"0", "1", "2", "3", "4", "5", "6", "7", "8", "9"}

\* "sup2" stands for the one character U+00B2 (superscript two), a digit to
\* str.isdigit() and no digit to int().
DigitChars == AsciiDigits \cup {"sup2"}

\* str.isdigit(): at least one character, and every character a digit.
IsDigit(s) == Len(s) > 0 /\ \A i \in 1 .. Len(s) : s[i] \in DigitChars

DigitValue(c) ==
    CASE c = "0" -> 0 [] c = "1" -> 1 [] c = "2" -> 2 [] c = "3" -> 3
      [] c = "4" -> 4 [] c = "5" -> 5 [] c = "6" -> 6 [] c = "7" -> 7
      [] c = "8" -> 8 [] c = "9" -> 9

RECURSIVE Decimal(_)
Decimal(s) ==
    IF s = <<>> THEN 0
    ELSE 10 * Decimal(SubSeq(s, 1, Len(s) - 1)) + DigitValue(s[Len(s)])

\* int(value) of a string isdigit() accepted: its decimal value, or ValueError.
IntOf(s) ==
    IF \A i \in 1 .. Len(s) : s[i] \in AsciiDigits
    THEN [raised |-> FALSE, n |-> Decimal(s)]
    ELSE [raised |-> TRUE, n |-> 0]

\* The order item.items() visits the fields in.
FieldOrder == << "id", "name", "score", "timestamp" >>

\* Lines 45-47 from the i-th field on: digit strings become integers, in place;
\* a ValueError leaves the fields converted so far converted.
RECURSIVE ConvertFrom(_, _)
ConvertFrom(item, i) ==
    IF i > Len(FieldOrder) THEN [raised |-> FALSE, item |-> item]
    ELSE LET key == FieldOrder[i]
         IN  IF key \in DOMAIN item /\ item[key].t = "str" /\ IsDigit(item[key].s)
             THEN LET v == IntOf(item[key].s)
                  IN  IF v.raised THEN [raised |-> TRUE, item |-> item]
                      ELSE ConvertFrom([item EXCEPT ![key] = IntVal(v.n)], i + 1)
             ELSE ConvertFrom(item, i + 1)

\* Lines 40-42: the timestamp goes in when the record has none.
Stamp(item, now) ==
    IF "timestamp" \notin DOMAIN item
    THEN [k \in DOMAIN item \cup {"timestamp"} |->
            IF k = "timestamp" THEN IntVal(now) ELSE item[k]]
    ELSE item

\* Mutant of TransformItem: the timestamp is written whether present or not.
TransformItemRestamp(item, now) ==
    ConvertFrom([k \in DOMAIN item \cup {"timestamp"} |->
                    IF k = "timestamp" THEN IntVal(now) ELSE item[k]], 1)

\* now is int(time.time()).
TransformItem(item, now) == ConvertFrom(Stamp(item, now), 1)

RequiredFields(cfg) == DictGet(cfg, "required_fields", <<>>)

\* Mutant of ValidateItem: any() in place of all().
ValidateItemAny(item, cfg) ==
    \E i \in 1 .. Len(RequiredFields(cfg)) : RequiredFields(cfg)[i] \in DOMAIN item

ValidateItem(item, cfg) ==
    \A i \in 1 .. Len(RequiredFields(cfg)) : RequiredFields(cfg)[i] \in DOMAIN item

\* The loop of process_data from the i-th record on: hp the records, acc the
\* list built so far, readings[i] the clock when the i-th record is reached.
RECURSIVE ProcessFrom(_, _, _, _, _, _)
ProcessFrom(hp, dat, cfg, readings, i, acc) ==
    IF i > Len(dat) THEN [raised |-> FALSE, heap |-> hp, processed |-> acc]
    ELSE IF ValidateItem(hp[dat[i]], cfg)
    THEN LET tr == TransformItem(hp[dat[i]], readings[i])
             hp2 == [hp EXCEPT ![dat[i]] = tr.item]
         IN  IF tr.raised THEN [raised |-> TRUE, heap |-> hp2, processed |-> acc]
             ELSE ProcessFrom(hp2, dat, cfg, readings, i + 1, Append(acc, dat[i]))
    ELSE ProcessFrom(hp, dat, cfg, readings, i + 1, acc)

\* Mutant of ProcessData: processed.insert(0, ...) in place of append.
RECURSIVE ProcessFromFront(_, _, _, _, _, _)
ProcessFromFront(hp, dat, cfg, readings, i, acc) ==
    IF i > Len(dat) THEN [raised |-> FALSE, heap |-> hp, processed |-> acc]
    ELSE IF ValidateItem(hp[dat[i]], cfg)
    THEN LET tr == TransformItem(hp[dat[i]], readings[i])
             hp2 == [hp EXCEPT ![dat[i]] = tr.item]
         IN  IF tr.raised THEN [raised |-> TRUE, heap |-> hp2, processed |-> acc]
             ELSE ProcessFromFront(hp2, dat, cfg, readings, i + 1, <<dat[i]>> \o acc)
    ELSE ProcessFromFront(hp, dat, cfg, readings, i + 1, acc)

ProcessDataInsertFront(hp, dat, cfg, readings) ==
    ProcessFromFront(hp, dat, cfg, readings, 1, <<>>)

ProcessData(hp, dat, cfg, readings) == ProcessFrom(hp, dat, cfg, readings, 1, <<>>)

\* _load_config: the mapping in the file, {} when there is no file.
LoadConfig(file) == IF file.exists THEN file.content ELSE <<>>

\* ---- inputs

Alice == [id |-> StrVal(<<"1">>), name |-> StrVal(<<"A", "l", "i", "c", "e">>),
          score |-> StrVal(<<"9", "5">>)]
Charlie == [id |-> StrVal(<<"3">>), name |-> StrVal(<<"C", "h", "a", "r", "l", "i", "e">>)]
Stamped == [id |-> IntVal(7), score |-> StrVal(<<"0", "0", "7">>),
            timestamp |-> StrVal(<<"1", "2">>)]
Squared == [id |-> StrVal(<<"2">>), name |-> StrVal(<<"B", "o", "b">>),
            score |-> StrVal(<<"sup2">>)]
Blank == [score |-> StrVal(<<>>)]

SampleRecords == {Alice, Charlie, Stamped, Squared, Blank}

Objs == {"r1", "r2"}

ConfigFiles ==
    { [exists |-> FALSE, content |-> <<>>],
      [exists |-> TRUE, content |-> <<>>],
      [exists |-> TRUE, content |-> [required_fields |-> <<>>]],
      [exists |-> TRUE, content |-> [required_fields |-> <<"id", "name">>]],
      [exists |-> TRUE, content |-> [required_fields |-> <<"id", "name", "score">>]],
      [exists |-> TRUE, content |-> [required_fields |-> <<"timestamp">>]] }

Batches == UNION {[1 .. n -> Objs] : n \in 0 .. MaxLen}

\* The clock readings of one process_data call: one per record, none earlier
\* than the one before.
Readings(n, from) ==
    {r \in [1 .. n -> from .. MaxClock] : \A i \in 1 .. n - 1 : r[i] <= r[i + 1]}

\* ---- the specification

InitProc ==
    /\ HandlerIdle
    /\ RaceIdle
    /\ heap \in [Objs -> SampleRecords]
    /\ heap0 = heap
    /\ config = <<>>
    /\ data \in Batches
    /\ ppc = "new"
    /\ processed = <<>>
    /\ clock = 0
    /\ returnedAt = 0
    /\ heapOut = heap
    /\ again = [o \in Objs |-> "no"]

\* DataProcessor(config_path)
Construct(file) ==
    /\ ppc = "new"
    /\ config' = LoadConfig(file)
    /\ ppc' = "ready"
    /\ UNCHANGED << heap, heap0, data, processed, clock, returnedAt, heapOut,
                    again, handlerVars, raceVars >>

\* processor.process_data(data)
Process(readings) ==
    /\ ppc = "ready"
    /\ LET r == ProcessData(heap, data, config, readings)
       IN  /\ heap' = r.heap
           /\ heapOut' = r.heap
           /\ processed' = r.processed
           /\ ppc' = IF r.raised THEN "raised" ELSE "returned"
    /\ heap0' = heap
    /\ clock' = IF readings = <<>> THEN clock ELSE readings[Len(readings)]
    /\ returnedAt' = clock'
    /\ UNCHANGED << config, data, again, handlerVars, raceVars >>

\* processor._transform_item(record) on a record process_data returned, the
\* clock reading now.
TransformAgain(i, now) ==
    /\ ppc = "returned"
    /\ i \in 1 .. Len(processed)
    /\ LET o == processed[i]
           tr == TransformItem(heap[o], now)
       IN  /\ heap' = [heap EXCEPT ![o] = tr.item]
           /\ ppc' = IF tr.raised THEN "raised" ELSE ppc
           /\ again' = [again EXCEPT ![o] =
                            IF now > returnedAt THEN "later"
                            ELSE IF @ = "no" THEN "same" ELSE @]
    /\ clock' = now
    /\ UNCHANGED << heap0, config, data, processed, returnedAt, heapOut,
                    handlerVars, raceVars >>

NextProc ==
    \/ \E file \in ConfigFiles : Construct(file)
    \/ \E readings \in Readings(Len(data), clock) : Process(readings)
    \/ \E i \in 1 .. MaxLen, now \in clock .. MaxClock : TransformAgain(i, now)

SpecProc == InitProc /\ [][NextProc]_vars

\* ---------------------------------------------------- claims under SpecProc

\* The field names the configuration requires.
Required ==
    IF "required_fields" \in DOMAIN config
    THEN {config.required_fields[k] : k \in 1 .. Len(config.required_fields)}
    ELSE {}

\* C3: what process_data returns is no longer than its input, and every
\* record of it has every required field of the configuration as a key.
C3_OutputHasRequired ==
    ppc = "returned"
    => /\ Len(processed) <= Len(data)
       /\ \A i \in 1 .. Len(processed) : Required \subseteq DOMAIN heap[processed[i]]

C3_Witness ==
    /\ ppc = "returned"
    /\ Cardinality(Required) = 3
    /\ Len(processed) = 1
    /\ Len(data) = 2

\* C6: what process_data returns is the input records that have every
\* required field, in their input order, each one transformed: none of them
\* dropped, no other record kept, no two of them swapped.
C6_FilterInOrder ==
    ppc = "returned"
    => LET HasRequired(o) == Required \subseteq DOMAIN heap0[o]
       IN  /\ processed = SelectSeq(data, HasRequired)
           /\ \A i \in 1 .. Len(processed) :
                 \E now \in Times :
                    heap[processed[i]] = TransformItem(heap0[processed[i]], now).item

C6_Witness ==
    /\ ppc = "returned"
    /\ Required # {}
    /\ Len(processed) = 2
    /\ processed[1] # processed[2]
    /\ heap0[processed[1]] # heap0[processed[2]]

\* C7: _transform_item applied to a record it has already transformed leaves
\* the record as it was, also when the clock has moved on in between.
C7_TransformIdempotent ==
    \A o \in Objs :
        again[o] # "no" => ppc = "returned" /\ heap[o] = heapOut[o]

C7_Witness ==
    \E o \in Objs :
        /\ again[o] = "later"
        /\ heap0[o] = Alice
        /\ heap[o].timestamp = IntVal(0)
        /\ heap[o].score = IntVal(95)
        /\ clock = 1

====
